---------------------------- MODULE Spec2Model ----------------------------
(***************************************************************************)
(* A model of the grading core of Gradewise (src/utils/grading.py):        *)
(* the response parser (_sanitize_json_text, _extract_json_object,         *)
(* _parse_json_response), the model registry (refresh_available_models,    *)
(* _get_provider_from_model), the credential handles (_init_api_clients,   *)
(* _validate_api_key) and the orchestrator (evaluate_submission).          *)
(*                                                                         *)
(* Text is a sequence of symbols.  A symbol is one character ("{", "/",    *)
(* a digit, ...) or one indivisible word ("Score", "json", ...); the       *)
(* regular expressions of the source are translated to matchers over such  *)
(* sequences.  A Python value (the result of json.loads, a grade record)   *)
(* is a record of one fixed shape, built by JNull, JNum, JStr, JArr, JObj. *)
(***************************************************************************)
EXTENDS Integers, Sequences, FiniteSets, TLC

VARIABLES
    local_models,    \* self.local_models: the ids the local server listed
    online_models,   \* self.online_models: an insertion-ordered dict
    openai_client,   \* self.openai_client: None or the key it was built from
    claude_client,   \* self.claude_client
    groq_api_key,    \* self.groq_api_key
    pc,              \* "idle", or "returned" while the caller holds a result
    result,          \* what the last call returned to its caller
    log,             \* what the last call did, in order
    inflight         \* the call that has begun and not ended, with its frame

vars == <<local_models, online_models, openai_client, claude_client,
          groq_api_key, pc, result, log, inflight>>

-----------------------------------------------------------------------------
(* Symbols *)

BT == "backtick"
QT == "\""
NL == "\n"
SP == " "

None == "None"

Whitespace == {SP, NL}

Digits == {"0", "1", "2", "3", "4", "5", "6", "7", "8", "9"}

DigitVal(d) ==
    CASE d = "0" -> 0 [] d = "1" -> 1 [] d = "2" -> 2 [] d = "3" -> 3
      [] d = "4" -> 4 [] d = "5" -> 5 [] d = "6" -> 6 [] d = "7" -> 7
      [] d = "8" -> 8 [] d = "9" -> 9

(* The first position p in from..Len(t) with t[p] in S, or Len(t)+1. *)
RECURSIVE FirstIn(_, _, _)
FirstIn(t, from, S) ==
    IF from > Len(t) THEN Len(t) + 1
    ELSE IF t[from] \in S THEN from
    ELSE FirstIn(t, from + 1, S)

(* The first position p in from..Len(t) with t[p] not in S, or Len(t)+1. *)
RECURSIVE FirstNotIn(_, _, _)
FirstNotIn(t, from, S) ==
    IF from > Len(t) THEN Len(t) + 1
    ELSE IF t[from] \notin S THEN from
    ELSE FirstNotIn(t, from + 1, S)

At(t, i, c) == i >= 1 /\ i <= Len(t) /\ t[i] = c

-----------------------------------------------------------------------------
(* Python values *)

JNull == [ty |-> "null", n |-> 0, s |-> <<>>, a |-> <<>>, o |-> <<>>]
JBool(b) == [ty |-> "bool", n |-> IF b THEN 1 ELSE 0, s |-> <<>>, a |-> <<>>, o |-> <<>>]
(* The fraction digits without trailing zeros: 1.50 and 1.5 are one float. *)
RECURSIVE NormFrac(_)
NormFrac(f) ==
    IF f = <<>> THEN <<>>
    ELSE IF f[Len(f)] = "0" THEN NormFrac(SubSeq(f, 1, Len(f) - 1))
    ELSE f

(* A number: integer part n and the digits of its fraction. *)
JNum(n, f) == [ty |-> "num", n |-> n, s |-> NormFrac(f), a |-> <<>>, o |-> <<>>]
JInt(n) == JNum(n, <<>>)
JStr(s) == [ty |-> "str", n |-> 0, s |-> s, a |-> <<>>, o |-> <<>>]
JArr(a) == [ty |-> "arr", n |-> 0, s |-> <<>>, a |-> a, o |-> <<>>]
(* A dict: o maps each key (a text) to a value. *)
JObj(o) == [ty |-> "obj", n |-> 0, s |-> <<>>, a |-> <<>>, o |-> o]

EmptyDict == [k \in {} |-> JNull]

(* d[k] = v on a dict: a new key is added, an old one overwritten. *)
DictSet(d, k, v) == [x \in (DOMAIN d) \cup {k} |-> IF x = k THEN v ELSE d[x]]

HasKey(v, k) == v.ty = "obj" /\ k \in DOMAIN v.o

-----------------------------------------------------------------------------
(* _sanitize_json_text *)

IsFence(t, i) == At(t, i, BT) /\ At(t, i + 1, BT) /\ At(t, i + 2, BT)

(* The first position j >= from where a fence starts, or 0. *)
RECURSIVE NextFence(_, _)
NextFence(t, from) ==
    IF from > Len(t) THEN 0
    ELSE IF IsFence(t, from) THEN from
    ELSE NextFence(t, from + 1)

(* Where group 1 of the fence pattern (fence, optional json, optional line
   break, lazy group, fence) starts for a fence opening at i:
   after the optional tag json and the optional line break. *)
FenceBodyStart(t, i) ==
    LET afterTag == IF At(t, i + 3, "json") THEN i + 4 ELSE i + 3
    IN  IF At(t, afterTag, NL) THEN afterTag + 1 ELSE afterTag

(* The first re.sub of _sanitize_json_text from position i on: each leftmost
   match of the fence pattern is replaced by its group 1. *)
RECURSIVE StripFences(_, _)
StripFences(t, i) ==
    IF i > Len(t) THEN <<>>
    ELSE IF IsFence(t, i) /\ NextFence(t, FenceBodyStart(t, i)) # 0
    THEN LET b == FenceBodyStart(t, i)
             j == NextFence(t, b)
         IN  SubSeq(t, b, j - 1) \o StripFences(t, j + 3)
    ELSE <<t[i]>> \o StripFences(t, i + 1)

(* The first position k >= from with t[k] = "*" and t[k+1] = "/", or 0. *)
RECURSIVE NextCommentEnd(_, _)
NextCommentEnd(t, from) ==
    IF from >= Len(t) THEN 0
    ELSE IF t[from] = "*" /\ t[from + 1] = "/" THEN from
    ELSE NextCommentEnd(t, from + 1)

(* The second re.sub from position i on: a line comment (two slashes up to
   and including the next line break) or a block comment is removed. *)
RECURSIVE StripComments(_, _)
StripComments(t, i) ==
    IF i > Len(t) THEN <<>>
    ELSE IF At(t, i, "/") /\ At(t, i + 1, "/") /\ FirstIn(t, i + 2, {NL}) <= Len(t)
    THEN StripComments(t, FirstIn(t, i + 2, {NL}) + 1)
    ELSE IF At(t, i, "/") /\ At(t, i + 1, "*") /\ NextCommentEnd(t, i + 2) # 0
    THEN StripComments(t, NextCommentEnd(t, i + 2) + 2)
    ELSE <<t[i]>> \o StripComments(t, i + 1)

(* The last position p in 1..upto with t[p] not in S, or 0. *)
RECURSIVE LastNotIn(_, _, _)
LastNotIn(t, upto, S) ==
    IF upto < 1 THEN 0
    ELSE IF t[upto] \notin S THEN upto
    ELSE LastNotIn(t, upto - 1, S)

(* str.strip() *)
Strip(t) == SubSeq(t, FirstNotIn(t, 1, Whitespace), LastNotIn(t, Len(t), Whitespace))

SanitizeJsonText(text) == Strip(StripComments(StripFences(text, 1), 1))

-----------------------------------------------------------------------------
(* json.loads *)

ParseFail == [ok |-> FALSE, v |-> JNull, next |-> 0]
ParseOk(v, next) == [ok |-> TRUE, v |-> v, next |-> next]

SkipWs(t, i) == FirstNotIn(t, i, Whitespace)

(* The value of the digits t[i..j], most significant first. *)
RECURSIVE DigitsVal(_, _, _)
DigitsVal(t, i, j) ==
    IF j < i THEN 0 ELSE 10 * DigitsVal(t, i, j - 1) + DigitVal(t[j])

(* A string: a quote, symbols other than a quote or a line break, a quote. *)
ParseString(t, i) ==
    LET j == FirstIn(t, i + 1, {QT})
    IN  IF At(t, i, QT) /\ j <= Len(t) /\ FirstIn(t, i + 1, {NL}) > j
        THEN ParseOk(JStr(SubSeq(t, i + 1, j - 1)), j + 1)
        ELSE ParseFail

(* A number: an optional minus, 0 or a digit run not starting with 0, an
   optional fraction; the longest such prefix at i. *)
ParseNumber(t, i) ==
    LET neg == At(t, i, "-")
        d == IF neg THEN i + 1 ELSE i
        e == IF At(t, d, "0") THEN d + 1 ELSE FirstNotIn(t, d, Digits)
        hasFrac == At(t, e, ".") /\ e + 1 <= Len(t) /\ t[e + 1] \in Digits
        f == IF hasFrac THEN FirstNotIn(t, e + 1, Digits) ELSE e
        n == DigitsVal(t, d, e - 1)
    IN  IF d <= Len(t) /\ t[d] \in Digits
        THEN ParseOk(JNum(IF neg THEN 0 - n ELSE n,
                          IF hasFrac THEN SubSeq(t, e + 1, f - 1) ELSE <<>>), f)
        ELSE ParseFail

RECURSIVE ParseValue(_, _)
RECURSIVE ParseMembers(_, _, _)
RECURSIVE ParseElements(_, _, _)

(* The members of an object from position i (at a key) on, added to dict d;
   a repeated key keeps its last value. *)
ParseMembers(t, i, d) ==
    LET k == ParseString(t, i)
        c == SkipWs(t, k.next)
        v == ParseValue(t, SkipWs(t, c + 1))
        e == SkipWs(t, v.next)
    IN  IF ~k.ok \/ ~At(t, c, ":") THEN ParseFail
        ELSE IF ~v.ok THEN ParseFail
        ELSE IF At(t, e, "}") THEN ParseOk(JObj(DictSet(d, k.v.s, v.v)), e + 1)
        ELSE IF At(t, e, ",")
        THEN ParseMembers(t, SkipWs(t, e + 1), DictSet(d, k.v.s, v.v))
        ELSE ParseFail

(* The elements of an array from position i (at a value) on, appended to a. *)
ParseElements(t, i, a) ==
    LET v == ParseValue(t, i)
        e == SkipWs(t, v.next)
    IN  IF ~v.ok THEN ParseFail
        ELSE IF At(t, e, "]") THEN ParseOk(JArr(Append(a, v.v)), e + 1)
        ELSE IF At(t, e, ",") THEN ParseElements(t, SkipWs(t, e + 1), Append(a, v.v))
        ELSE ParseFail

ParseValue(t, i) ==
    IF i > Len(t) THEN ParseFail
    ELSE IF t[i] = "{"
    THEN IF At(t, SkipWs(t, i + 1), "}")
         THEN ParseOk(JObj(EmptyDict), SkipWs(t, i + 1) + 1)
         ELSE ParseMembers(t, SkipWs(t, i + 1), EmptyDict)
    ELSE IF t[i] = "["
    THEN IF At(t, SkipWs(t, i + 1), "]")
         THEN ParseOk(JArr(<<>>), SkipWs(t, i + 1) + 1)
         ELSE ParseElements(t, SkipWs(t, i + 1), <<>>)
    ELSE IF t[i] = QT THEN ParseString(t, i)
    ELSE IF t[i] = "null" THEN ParseOk(JNull, i + 1)
    ELSE IF t[i] = "true" THEN ParseOk(JBool(TRUE), i + 1)
    ELSE IF t[i] = "false" THEN ParseOk(JBool(FALSE), i + 1)
    ELSE ParseNumber(t, i)

(* json.loads(text): the value, or ok = FALSE for json.JSONDecodeError
   (no value at the start, or text left over after it). *)
JsonLoads(text) ==
    LET r == ParseValue(text, SkipWs(text, 1))
    IN  IF r.ok /\ SkipWs(text, r.next) = Len(text) + 1
        THEN [ok |-> TRUE, v |-> r.v]
        ELSE [ok |-> FALSE, v |-> JNull]

-----------------------------------------------------------------------------
(* _extract_json_object *)

(* Whether re can compile pattern p of the list: the first one uses the
   recursion group (?R), which re does not know ("unknown extension ?R"). *)
PatternCompiles(p) == p # 1

ReErrorMsg == <<"unknown extension ?R at position 12">>

NoMatch == [from |-> 0, to |-> 0]

(* The leftmost match of pattern 2 (a brace, one or more symbols other than
   a closing brace, a closing brace) starting at or after position i. *)
RECURSIVE SimpleObjectAt(_, _)
SimpleObjectAt(t, i) ==
    LET b == FirstIn(t, i, {"{"})
        e == FirstIn(t, b + 1, {"}"})
    IN  IF b > Len(t) \/ e > Len(t) THEN NoMatch
        ELSE IF e = b + 1 THEN SimpleObjectAt(t, b + 1)
        ELSE [from |-> b, to |-> e]

(* The first closing brace at or after j that is followed by whitespace or
   by the end of the text, or 0. *)
RECURSIVE BoundedBraceEnd(_, _)
BoundedBraceEnd(t, j) ==
    IF j > Len(t) THEN 0
    ELSE IF t[j] = "}" /\ (j = Len(t) \/ t[j + 1] \in Whitespace) THEN j
    ELSE BoundedBraceEnd(t, j + 1)

(* The leftmost match of pattern 3 (a brace, a lazy run, a closing brace
   before whitespace or the end) starting at or after position i. *)
BoundedObjectAt(t, i) ==
    LET b == FirstIn(t, i, {"{"})
        e == BoundedBraceEnd(t, b + 1)
    IN  IF b > Len(t) \/ e = 0 THEN NoMatch ELSE [from |-> b, to |-> e]

PatternMatchAt(p, t, i) ==
    CASE p = 2 -> SimpleObjectAt(t, i)
      [] p = 3 -> BoundedObjectAt(t, i)

(* for match in re.finditer(pattern, text): the first match from position i
   on that json.loads accepts, or NoMatch. *)
RECURSIVE FirstValidMatch(_, _, _)
FirstValidMatch(p, t, i) ==
    LET m == PatternMatchAt(p, t, i)
    IN  IF m = NoMatch THEN NoMatch
        ELSE IF JsonLoads(SubSeq(t, m.from, m.to)).ok THEN m
        ELSE FirstValidMatch(p, t, m.to + 1)

NumPatterns == 3

(* for pattern in patterns, from pattern p on.  raised: re.finditer raised
   re.error, which the loop does not catch; found: a span was returned. *)
RECURSIVE ExtractFrom(_, _)
ExtractFrom(p, t) ==
    IF p > NumPatterns THEN [raised |-> FALSE, found |-> FALSE, s |-> <<>>]
    ELSE IF ~PatternCompiles(p) THEN [raised |-> TRUE, found |-> FALSE, s |-> <<>>]
    ELSE LET m == FirstValidMatch(p, t, 1)
         IN  IF m # NoMatch
             THEN [raised |-> FALSE, found |-> TRUE, s |-> SubSeq(t, m.from, m.to)]
             ELSE ExtractFrom(p + 1, t)

ExtractJsonObject(text) == ExtractFrom(1, text)

-----------------------------------------------------------------------------
(* The heuristic extraction of _parse_json_response *)

(* The words the label alternatives match, in any case; a pattern is
   searched, so a word that ends with a label counts too. *)
ScoreLabels == {"score", "Score", "grade", "Grade", "mark", "marks", "Marks", "underscore"}
FeedbackLabels == {"feedback", "Feedback", "comment", "comments", "Comments"}
ImprovementLabels == {"improvement", "improvements", "Improvements", "suggestion", "Suggestions"}
BreakdownLabels == {"question", "Question", "part", "Part", "section", "Section", "apart"}

LabelSep == {":", SP, NL}

MaxScore == 20

(* A match of digits with an optional fraction starting at the digit at i:
   the position after it, and float() of it. *)
NumberAt(t, i) ==
    LET e == FirstNotIn(t, i, Digits)
        hasFrac == At(t, e, ".") /\ e + 1 <= Len(t) /\ t[e + 1] \in Digits
        f == IF hasFrac THEN FirstNotIn(t, e + 1, Digits) ELSE e
    IN  [next |-> f,
         v |-> JNum(DigitsVal(t, i, e - 1),
                    IF hasFrac THEN SubSeq(t, e + 1, f - 1) ELSE <<>>)]

NoNumber == [found |-> FALSE, v |-> JInt(0)]

(* re.search of the first score pattern from position i on: a score label,
   one or more of colon and whitespace, a number. *)
RECURSIVE LabelledScore(_, _)
LabelledScore(t, i) ==
    LET l == FirstIn(t, i, ScoreLabels)
        d == FirstNotIn(t, l + 1, LabelSep)
    IN  IF l > Len(t) THEN NoNumber
        ELSE IF d > l + 1 /\ d <= Len(t) /\ t[d] \in Digits
        THEN [found |-> TRUE, v |-> NumberAt(t, d).v]
        ELSE LabelledScore(t, l + 1)

(* Whether "20" or "twenty" stands at position i. *)
TwentyAt(t, i) == At(t, i, "twenty") \/ (At(t, i, "2") /\ At(t, i + 1, "0"))

(* Whether a slash, or "out of" with optional whitespace around its words,
   and then twenty follow the optional whitespace at position i. *)
OutOfTwentyAt(t, i) ==
    LET w == SkipWs(t, i)
        o == SkipWs(t, w + 1)
    IN  \/ At(t, w, "/") /\ TwentyAt(t, w + 1)
        \/ At(t, w, "out") /\ At(t, o, "of") /\ TwentyAt(t, SkipWs(t, o + 1))

(* re.search of the second score pattern from position i on: a number, then
   a slash or "out of", then twenty. *)
RECURSIVE ScoreOutOfTwenty(_, _)
ScoreOutOfTwenty(t, i) ==
    LET d == FirstIn(t, i, Digits)
    IN  IF d > Len(t) THEN NoNumber
        ELSE IF OutOfTwentyAt(t, NumberAt(t, d).next)
        THEN [found |-> TRUE, v |-> NumberAt(t, d).v]
        ELSE ScoreOutOfTwenty(t, d + 1)

GreaterThan(v, n) == v.n > n \/ (v.n = n /\ v.s # <<>>)

(* The number as matched, with no upper limit. *)
ClampScoreAbsent(v) == v

(* min(float(match.group(1)), 20) *)
ClampScore(v) == IF GreaterThan(v, MaxScore) THEN JInt(MaxScore) ELSE v

(* for pattern in score_patterns: the first pattern that matches decides. *)
ExtractScore(t) ==
    IF LabelledScore(t, 1).found THEN ClampScore(LabelledScore(t, 1).v)
    ELSE IF ScoreOutOfTwenty(t, 1).found THEN ClampScore(ScoreOutOfTwenty(t, 1).v)
    ELSE JInt(0)

(* Where the group after a label at position l starts: after the longest
   run of colon and whitespace that still leaves a symbol other than a line
   break for the group; 0 when the pattern does not match at l. *)
GroupStart(t, l) ==
    LET d == FirstNotIn(t, l + 1, LabelSep)
        g == LastNotIn(t, Len(t), {NL})
    IN  IF d = l + 1 THEN 0
        ELSE IF d <= Len(t) THEN d
        ELSE IF g > l + 1 THEN g
        ELSE 0

(* re.search of a label pattern from position i on: the start of its group,
   or 0. *)
RECURSIVE LabelledGroup(_, _, _)
LabelledGroup(t, i, labels) ==
    LET l == FirstIn(t, i, labels)
    IN  IF l > Len(t) THEN 0
        ELSE IF GroupStart(t, l) # 0 THEN GroupStart(t, l)
        ELSE LabelledGroup(t, l + 1, labels)

(* feedback_match.group(1).strip(): the rest of the line after the label. *)
ExtractFeedback(t) ==
    LET g == LabelledGroup(t, 1, FeedbackLabels)
    IN  IF g = 0 THEN <<>> ELSE Strip(SubSeq(t, g, FirstIn(t, g, {NL}) - 1))

(* The end of the improvements group starting at g: lines that are not
   empty, each with its line break. *)
RECURSIVE LinesEnd(_, _)
LinesEnd(t, g) ==
    LET e == FirstIn(t, g, {NL})
    IN  IF e > Len(t) THEN Len(t)
        ELSE IF e = Len(t) \/ t[e + 1] = NL THEN e
        ELSE LinesEnd(t, e + 1)

Bullet == "bullet"

(* The position after a separator of the split pattern (digits and a
   period, a bullet, a hyphen, a line break) at position i; i if none. *)
SeparatorEnd(t, i) ==
    IF i > Len(t) THEN i
    ELSE IF t[i] \in {Bullet, "-", NL} THEN i + 1
    ELSE IF t[i] \in Digits /\ At(t, FirstNotIn(t, i, Digits), ".")
    THEN FirstNotIn(t, i, Digits) + 1
    ELSE i

(* re.split on the separators, each piece stripped, the empty ones dropped:
   cur is the piece being read. *)
RECURSIVE SplitItems(_, _, _)
SplitItems(t, i, cur) ==
    LET flush == IF Strip(cur) = <<>> THEN <<>> ELSE <<JStr(Strip(cur))>>
    IN  IF i > Len(t) THEN flush
        ELSE IF SeparatorEnd(t, i) > i
        THEN flush \o SplitItems(t, SeparatorEnd(t, i), <<>>)
        ELSE SplitItems(t, i + 1, Append(cur, t[i]))

ExtractImprovements(t) ==
    LET g == LabelledGroup(t, 1, ImprovementLabels)
    IN  IF g = 0 THEN <<>> ELSE SplitItems(SubSeq(t, g, LinesEnd(t, g)), 1, <<>>)

(* The findall whose dict keeps the first value written under a key. *)
RECURSIVE ExtractBreakdownKeepingFirst(_, _, _)
ExtractBreakdownKeepingFirst(t, i, d) ==
    LET l == FirstIn(t, i, BreakdownLabels)
        q == SkipWs(t, l + 1)
        e == FirstNotIn(t, q, Digits)
        n == FirstNotIn(t, e, LabelSep)
    IN  IF l > Len(t) THEN d
        ELSE IF e > q /\ n > e /\ n <= Len(t) /\ t[n] \in Digits
        THEN ExtractBreakdownKeepingFirst(t, NumberAt(t, n).next,
                 IF (<<"question">> \o SubSeq(t, q, e - 1)) \in DOMAIN d THEN d
                 ELSE DictSet(d, <<"question">> \o SubSeq(t, q, e - 1), NumberAt(t, n).v))
        ELSE ExtractBreakdownKeepingFirst(t, l + 1, d)

(* re.findall of the breakdown pattern from position i on, written into the
   dict d in order: a label, optional whitespace, the digits N, one or more
   of colon and whitespace, a number; the key is "question" followed by the
   digits as written. *)
RECURSIVE ExtractBreakdown(_, _, _)
ExtractBreakdown(t, i, d) ==
    LET l == FirstIn(t, i, BreakdownLabels)
        q == SkipWs(t, l + 1)
        e == FirstNotIn(t, q, Digits)
        n == FirstNotIn(t, e, LabelSep)
    IN  IF l > Len(t) THEN d
        ELSE IF e > q /\ n > e /\ n <= Len(t) /\ t[n] \in Digits
        THEN ExtractBreakdown(t, NumberAt(t, n).next,
                 DictSet(d, <<"question">> \o SubSeq(t, q, e - 1), NumberAt(t, n).v))
        ELSE ExtractBreakdown(t, l + 1, d)

kScore == <<"score">>
kFeedback == <<"feedback">>
kImprovements == <<"improvements">>
kBreakdown == <<"breakdown">>
kRaw == <<"raw_llm_output">>
kError == <<"error">>

(* A dict with the five keys of a grade record. *)
Record(score, feedback, improvements, breakdown, raw) ==
    JObj([k \in {kScore, kFeedback, kImprovements, kBreakdown, kRaw} |->
            CASE k = kScore -> score
              [] k = kFeedback -> feedback
              [] k = kImprovements -> improvements
              [] k = kBreakdown -> breakdown
              [] k = kRaw -> raw])

(* The structured extraction: cleaned is the sanitized text, response the
   original one. *)
HeuristicExtract(cleaned, response) ==
    Record(ExtractScore(cleaned),
           JStr(ExtractFeedback(cleaned)),
           JArr(ExtractImprovements(cleaned)),
           JObj(ExtractBreakdown(cleaned, 1, EmptyDict)),
           response)

-----------------------------------------------------------------------------
(* _parse_json_response *)

TypeErrorMsg == <<"expected string or bytes-like object">>

PRaised(msg) == [raised |-> TRUE, msg |-> msg, v |-> JNull]
PReturned(v) == [raised |-> FALSE, msg |-> <<>>, v |-> v]

(* The record of the outermost except clause. *)
ParseFallback(msg, response) ==
    Record(JInt(0),
           JStr(<<"Error parsing model response">>),
           JArr(<<JStr(<<"Unable to parse model response">>)>>),
           JObj(DictSet(EmptyDict, kError, JStr(msg))),
           response)

(* After _extract_json_object(cleaned_text) gave ex (or raised re.error,
   which only the outermost except clause catches). *)
ParseExtracted(ex, cleaned, response) ==
    IF ex.raised THEN PRaised(ReErrorMsg)
    ELSE IF ex.found THEN PReturned(JsonLoads(ex.s).v)
    ELSE PReturned(HeuristicExtract(cleaned, response))

(* try: return json.loads(cleaned_text); except json.JSONDecodeError: ... *)
ParseDirect(direct, cleaned, response) ==
    IF direct.ok THEN PReturned(direct.v)
    ELSE ParseExtracted(ExtractJsonObject(cleaned), cleaned, response)

ParseCleaned(cleaned, response) == ParseDirect(JsonLoads(cleaned), cleaned, response)

(* The body of the outermost try.  response is the value handed in: a
   text (JStr) or, when the provider handed none back, None (JNull), on
   which re.sub raises TypeError. *)
ParseBody(response) ==
    IF response.ty # "str" THEN PRaised(TypeErrorMsg)
    ELSE ParseCleaned(SanitizeJsonText(response.s), response)

(* The body with no except clause but the one for the decode error, which
   the body handles itself: what else is raised goes to the caller. *)
ParserExceptDecodeOnly(r, response) == r

(* except Exception as e: the fallback record is returned. *)
ParserExcept(r, response) ==
    IF r.raised THEN PReturned(ParseFallback(r.msg, response)) ELSE r

(* _parse_json_response: what it returns (whatever json.loads made of the
   text, a dict or not; the structured extraction; the fallback record) or
   raises. *)
ParseJsonResponse(response) == ParserExcept(ParseBody(response), response)

-----------------------------------------------------------------------------
(* Credentials and the model registry *)

(* os.environ: the three keys the process is started with. *)
OpenAIEnvKey == "env-openai-key"
AnthropicEnvKey == "env-anthropic-key"
GroqEnvKey == "env-groq-key"

(* The key a caller may pass as api_key. *)
UserKey == "user-key"

(* The one id the listing endpoints may name, an id the openai listing may
   name that is no chat model, and the default model of evaluate_submission,
   which no endpoint names. *)
ListedModel == "gpt-4"
OtherOpenAIModel == "whisper-1"
DefaultModel == "llama2:3.2"

HostedProviders == {"openai", "claude", "groq"}

(* One step of a call, as the log keeps it. *)
Ev(ev, who, key) ==
    [ev |-> ev, who |-> who, key |-> key, ok |-> TRUE, accepts |-> FALSE, ids |-> {},
     text |-> JNull, rec |-> JNull]

(* _validate_api_key: whether a request is made for this provider name, and
   the verdict; accepted says whether the endpoint answered OK (an exception
   or a timeout of the request is caught and counts as not accepted). *)
ValidationEndpoints == {"groq", "anthropic", "openai"}
ValidateApiKey(provider, accepted) == provider \in ValidationEndpoints /\ accepted

(* online_models is a dict that keeps the order in which keys were first
   set: a sequence of [k |-> provider, v |-> the ids listed]. *)
OnlineHas(online, k) == \E i \in 1..Len(online) : online[i].k = k

(* self.online_models.get(k, []) *)
OnlineGet(online, k) ==
    IF OnlineHas(online, k)
    THEN (CHOOSE e \in {online[i] : i \in 1..Len(online)} : e.k = k).v
    ELSE {}

(* self.online_models[k] = v *)
OnlinePut(online, k, v) ==
    IF OnlineHas(online, k)
    THEN [i \in 1..Len(online) |-> IF online[i].k = k THEN [k |-> k, v |-> v] ELSE online[i]]
    ELSE Append(online, [k |-> k, v |-> v])

(* _get_provider_from_model *)
ProviderOf(model, local, online) ==
    LET hits == {i \in 1..Len(online) : model \in online[i].v}
    IN  IF model \in local THEN "local"
        ELSE IF hits # {} THEN online[CHOOSE i \in hits : \A j \in hits : i <= j].k
        ELSE "local"

GetProviderFromModel(model) == ProviderOf(model, local_models, online_models)

(* get_available_models for a hosted provider name *)
GetAvailableModels(provider) == OnlineGet(online_models, provider)

(* What one listing request of a refresh may do.  ok: an OK response naming
   ids; notok: a response that is not OK; reqexc: the request raised
   (connection refused, timeout); skip: the provider has no credential and
   is not asked. *)
Listing(kind, ids) == [kind |-> kind, ids |-> ids]
SkipListing == Listing("skip", {})

LocalListings ==
    {Listing("ok", {}), Listing("ok", {ListedModel}), Listing("notok", {}), Listing("reqexc", {})}
OpenAIListings ==
    {Listing("ok", {}), Listing("ok", {ListedModel, OtherOpenAIModel}), Listing("reqexc", {})}
HostedListings ==
    {Listing("ok", {}), Listing("ok", {ListedModel}), Listing("notok", {}), Listing("reqexc", {})}

(* if model.id.startswith(('gpt-3', 'gpt-4')) *)
IsChatModel(id) == id = ListedModel

Registry(local, online, lg) == [local |-> local, online |-> online, log |-> lg]

(* The except clause of refresh_available_models: both caches are emptied. *)
RefreshAborted(lg) == Registry({}, <<>>, lg)

(* The groq block of refresh_available_models, then the end. *)
RefreshGroq(r, gk, out) ==
    LET e == [Ev("list", "groq", gk) EXCEPT !.ok = (out.groq.kind = "ok"), !.ids = out.groq.ids]
    IN  IF gk = None THEN r
        ELSE IF out.groq.kind = "reqexc" THEN RefreshAborted(Append(r.log, e))
        ELSE IF out.groq.kind = "ok"
        THEN Registry(r.local, OnlinePut(r.online, "groq", out.groq.ids), Append(r.log, e))
        ELSE Registry(r.local, r.online, Append(r.log, e))

(* The claude block, which sends the key of the environment, then the rest. *)
RefreshClaude(r, cc, gk, out) ==
    LET e == [Ev("list", "claude", AnthropicEnvKey) EXCEPT
                  !.ok = (out.claude.kind = "ok"), !.ids = out.claude.ids]
    IN  IF cc = None THEN RefreshGroq(r, gk, out)
        ELSE IF out.claude.kind = "reqexc" THEN RefreshAborted(Append(r.log, e))
        ELSE IF out.claude.kind = "ok"
        THEN RefreshGroq(Registry(r.local, OnlinePut(r.online, "claude", out.claude.ids),
                                  Append(r.log, e)), gk, out)
        ELSE RefreshGroq(Registry(r.local, r.online, Append(r.log, e)), gk, out)

(* The openai block, whose request is in no try of its own, then the rest. *)
RefreshOpenAI(r, oc, cc, gk, out) ==
    LET ids == {id \in out.openai.ids : IsChatModel(id)}
        e == [Ev("list", "openai", oc) EXCEPT !.ok = (out.openai.kind = "ok"), !.ids = ids]
    IN  IF oc = None THEN RefreshClaude(r, cc, gk, out)
        ELSE IF out.openai.kind = "ok"
        THEN RefreshClaude(Registry(r.local, OnlinePut(r.online, "openai", ids),
                                    Append(r.log, e)), cc, gk, out)
        ELSE RefreshAborted(Append(r.log, e))

(* refresh_available_models from the caches local and online, with the
   credentials oc, cc, gk and the outcomes out of the requests: the local
   block, which catches the failure of its own request, then the rest. *)
RefreshAvailableModels(local, online, oc, cc, gk, out) ==
    LET e == [Ev("list", "local", None) EXCEPT !.ok = (out.local.kind = "ok"), !.ids = out.local.ids]
        l == CASE out.local.kind = "ok" -> out.local.ids
               [] out.local.kind = "notok" -> local
               [] out.local.kind = "reqexc" -> {}
    IN  RefreshOpenAI(Registry(l, online, <<e>>), oc, cc, gk, out)

(* The outcomes a refresh may meet with the credentials oc, cc, gk. *)
RefreshOutcomes(oc, cc, gk) ==
    [local : LocalListings,
     openai : IF oc = None THEN {SkipListing} ELSE OpenAIListings,
     claude : IF cc = None THEN {SkipListing} ELSE HostedListings,
     groq : IF gk = None THEN {SkipListing} ELSE HostedListings]

NoResult == [raised |-> FALSE, msg |-> <<>>, v |-> JNull]

(* No call is under way. *)
NoCall == [kind |-> "none"]

(* __init__: _init_api_clients keeps each key of the environment that its
   endpoint accepts, then refresh_available_models fills the empty caches. *)
Init ==
    \E vo, vc, vg \in BOOLEAN :
        LET oc == IF ValidateApiKey("openai", vo) THEN OpenAIEnvKey ELSE None
            cc == IF ValidateApiKey("anthropic", vc) THEN AnthropicEnvKey ELSE None
            gk == IF ValidateApiKey("groq", vg) THEN GroqEnvKey ELSE None
        IN  \E out \in RefreshOutcomes(oc, cc, gk) :
                /\ openai_client = oc
                /\ claude_client = cc
                /\ groq_api_key = gk
                /\ local_models = RefreshAvailableModels({}, <<>>, oc, cc, gk, out).local
                /\ online_models = RefreshAvailableModels({}, <<>>, oc, cc, gk, out).online
                /\ pc = "idle"
                /\ result = NoResult
                /\ log = <<>>
                /\ inflight = NoCall

Refreshed(r) ==
    /\ local_models' = r.local
    /\ online_models' = r.online
    /\ log' = r.log

(* A call of refresh_available_models. *)
Refresh ==
    /\ pc = "idle"
    /\ \E out \in RefreshOutcomes(openai_client, claude_client, groq_api_key) :
           Refreshed(RefreshAvailableModels(local_models, online_models, openai_client,
                                            claude_client, groq_api_key, out))
    /\ pc' = "refreshed"
    /\ result' = NoResult
    /\ UNCHANGED <<openai_client, claude_client, groq_api_key, inflight>>

-----------------------------------------------------------------------------
(* The provider calls *)

Raised(msg, lg) == [raised |-> TRUE, msg |-> msg, v |-> JNull, log |-> lg]
Returned(v, lg) == [raised |-> FALSE, msg |-> <<>>, v |-> v, log |-> lg]

(* What a backend may do with one request.  reply: it answers, with the
   content text (None when the answer carries a null content); notok: it
   answers with an error status; error: the request raises (connection
   error, timeout, malformed answer).  For the local server frags are the
   chunks of the stream that arrive, in order, before it ends or raises. *)
Answer(kind, text, frags) == [kind |-> kind, text |-> text, frags |-> frags]

Chunk(content) == [msg |-> TRUE, content |-> content]
(* A chunk that is no dict with a message: the loop passes over it. *)
NoMessageChunk == [msg |-> FALSE, content |-> <<>>]

(* _call_openai_api *)
CallOpenAI(oc, ans) ==
    LET e == [Ev("call", "openai", oc) EXCEPT !.ok = (ans.kind = "reply")]
    IN  IF oc = None THEN Raised(<<"OpenAI client not initialized">>, <<>>)
        ELSE IF ans.kind # "reply" THEN Raised(<<"openai request failed">>, <<e>>)
        ELSE IF ans.text.ty # "str" \/ ans.text.s = <<>>
        THEN Returned(JStr(<<"{", "}">>), <<e>>)
        ELSE Returned(ans.text, <<e>>)

(* _call_claude_api *)
CallClaude(cc, ans) ==
    LET e == [Ev("call", "claude", cc) EXCEPT !.ok = (ans.kind = "reply")]
    IN  IF cc = None THEN Raised(<<"Claude client not initialized">>, <<>>)
        ELSE IF ans.kind # "reply" \/ ans.text.ty # "str"
        THEN Raised(<<"claude request failed">>, <<e>>)
        ELSE Returned(ans.text, <<e>>)

(* _call_groq_api *)
CallGroq(gk, ans) ==
    LET e == [Ev("call", "groq", gk) EXCEPT !.ok = (ans.kind = "reply")]
    IN  IF gk = None THEN Raised(<<"Groq API key not configured">>, <<>>)
        ELSE IF ans.kind = "notok" THEN Raised(<<"Groq API error">>, <<e>>)
        ELSE IF ans.kind # "reply" THEN Raised(<<"groq request failed">>, <<e>>)
        ELSE Returned(ans.text, <<e>>)

(* The loop notifying the content of the chunk in place of full_response. *)
RECURSIVE StreamLoopNotifyingChunk(_, _, _, _, _, _, _)
StreamLoopNotifyingChunk(ans, i, full, lg, hasCb, calls, failAt) ==
    IF i > Len(ans.frags)
    THEN IF ans.kind = "reply" THEN Returned(JStr(full), lg)
         ELSE Raised(<<"ollama request failed">>, lg)
    ELSE IF ~ans.frags[i].msg
    THEN StreamLoopNotifyingChunk(ans, i + 1, full, lg, hasCb, calls, failAt)
    ELSE StreamLoopNotifyingChunk(ans, i + 1, full \o ans.frags[i].content,
             IF hasCb
             THEN Append(lg, [Ev("notify", "streaming", None) EXCEPT
                                  !.text = JStr(ans.frags[i].content)])
             ELSE lg,
             hasCb, calls + 1, failAt)

(* The loop of _call_ollama_api over the chunks from the i-th on.  full is
   full_response so far, calls the number of callback invocations made;
   the callback raises at its failAt-th invocation (never when 0). *)
RECURSIVE StreamLoop(_, _, _, _, _, _, _)
StreamLoop(ans, i, full, lg, hasCb, calls, failAt) ==
    LET note == [Ev("notify", "streaming", None) EXCEPT !.text = JStr(full \o ans.frags[i].content)]
    IN  IF i > Len(ans.frags)
        THEN IF ans.kind = "reply" THEN Returned(JStr(full), lg)
             ELSE Raised(<<"ollama request failed">>, lg)
        ELSE IF ~ans.frags[i].msg
        THEN StreamLoop(ans, i + 1, full, lg, hasCb, calls, failAt)
        ELSE IF ~hasCb
        THEN StreamLoop(ans, i + 1, full \o ans.frags[i].content, lg, hasCb, calls, failAt)
        ELSE IF calls + 1 = failAt
        THEN Raised(<<"callback failed">>, Append(lg, [note EXCEPT !.ok = FALSE]))
        ELSE StreamLoop(ans, i + 1, full \o ans.frags[i].content, Append(lg, note),
                        hasCb, calls + 1, failAt)

(* The chunks the server streams, in order: the content of each chunk that
   is a dict with a message, None for any other chunk. *)
Fragments(ans) ==
    [k \in 1..Len(ans.frags) |->
        IF ans.frags[k].msg THEN JStr(ans.frags[k].content) ELSE JNull]

(* _call_ollama_api; the log notes with the call what the server streams. *)
CallOllama(ans, hasCb, failAt) ==
    StreamLoop(ans, 1, <<>>,
               <<[Ev("call", "local", None) EXCEPT !.rec = JArr(Fragments(ans))]>>,
               hasCb, 0, failAt)

(* The backend the if-chain of evaluate_submission picks for the model. *)
Backend(model, online) ==
    IF model \in OnlineGet(online, "openai") THEN "openai"
    ELSE IF model \in OnlineGet(online, "claude") THEN "claude"
    ELSE IF model \in OnlineGet(online, "groq") THEN "groq"
    ELSE "local"

(* The provider call made a second time when the first raised. *)
CallProviderRetrying(model, online, c, ans, hasCb, failAt) ==
    CASE Backend(model, online) = "openai" ->
             [CallOpenAI(c.openai, ans) EXCEPT !.log = IF CallOpenAI(c.openai, ans).raised
                                                       THEN @ \o @ ELSE @]
      [] Backend(model, online) = "claude" ->
             [CallClaude(c.claude, ans) EXCEPT !.log = IF CallClaude(c.claude, ans).raised
                                                       THEN @ \o @ ELSE @]
      [] Backend(model, online) = "groq" ->
             [CallGroq(c.groq, ans) EXCEPT !.log = IF CallGroq(c.groq, ans).raised
                                                   THEN @ \o @ ELSE @]
      [] OTHER ->
             [CallOllama(ans, hasCb, failAt) EXCEPT !.log = IF CallOllama(ans, hasCb, failAt).raised
                                                            THEN @ \o @ ELSE @]

(* The provider call of evaluate_submission with the credentials c. *)
CallProvider(model, online, c, ans, hasCb, failAt) ==
    CASE Backend(model, online) = "openai" -> CallOpenAI(c.openai, ans)
      [] Backend(model, online) = "claude" -> CallClaude(c.claude, ans)
      [] Backend(model, online) = "groq" -> CallGroq(c.groq, ans)
      [] OTHER -> CallOllama(ans, hasCb, failAt)

-----------------------------------------------------------------------------
(* evaluate_submission *)

(* The record of the inner except clause, around the provider call. *)
ApiErrorRecord(msg) ==
    Record(JInt(0),
           JStr(<<"Error calling API: ">> \o msg),
           JArr(<<JStr(<<"API call failed">>)>>),
           JObj(DictSet(EmptyDict, kError, JStr(msg))),
           JStr(msg))

(* The record of the outer except clause. *)
SystemErrorRecord(msg) ==
    Record(JInt(0),
           JStr(<<"Error during grading: ">> \o msg),
           JArr(<<JStr(<<"System error occurred">>)>>),
           JObj(DictSet(EmptyDict, kError, JStr(msg))),
           JStr(msg))

(* except Exception around the provider call, the parse and the completed
   notification. *)
InnerExcept(r) == IF r.raised THEN Returned(ApiErrorRecord(r.msg), r.log) ELSE r

(* The body with no except clause around it: what is raised goes to the
   caller. *)
OuterExceptAbsent(r) == r

(* except Exception around the whole body. *)
OuterExcept(r) == IF r.raised THEN Returned(SystemErrorRecord(r.msg), r.log) ELSE r

Clients(oc, cc, gk) == [openai |-> oc, claude |-> cc, groq |-> gk]

(* The handle that an accepted api_key replaces. *)
SwapClient(c, provider, api_key) ==
    CASE provider = "groq" -> [c EXCEPT !.groq = api_key]
      [] provider = "anthropic" -> [c EXCEPT !.claude = api_key]
      [] provider = "openai" -> [c EXCEPT !.openai = api_key]
      [] OTHER -> c

(* result = self._parse_json_response(response); result["raw_llm_output"] =
   response: the item assignment raises TypeError on anything but a dict. *)
AttachRaw(parsed, response, lg) ==
    IF parsed.raised THEN Raised(parsed.msg, lg)
    ELSE IF parsed.v.ty # "obj"
    THEN Raised(<<"object does not support item assignment">>, lg)
    ELSE Returned(JObj(DictSet(parsed.v.o, kRaw, response)), lg)

ParseAndAttach(response, lg) == AttachRaw(ParseJsonResponse(response), response, lg)

(* if update_callback: the completed notification, which raises when it is
   the failAt-th invocation of the callback. *)
NotifyCompleted(r, response, hasCb, failAt) ==
    IF r.raised \/ ~hasCb THEN r
    ELSE IF Cardinality({i \in 1..Len(r.log) : r.log[i].ev = "notify"}) + 1 = failAt
    THEN Raised(<<"callback failed">>,
                Append(r.log, [Ev("notify", "completed", None) EXCEPT
                                   !.text = response, !.rec = r.v, !.ok = FALSE]))
    ELSE Returned(r.v, Append(r.log, [Ev("notify", "completed", None) EXCEPT
                                          !.text = response, !.rec = r.v]))

(* The rest of the inner try once the provider call returned or raised;
   the log notes as "gateway" how the call ended, with the text returned. *)
AfterCall(backend, called, hasCb, failAt, lg) ==
    IF called.raised
    THEN Raised(called.msg,
                lg \o called.log \o <<[Ev("gateway", backend, None) EXCEPT !.ok = FALSE]>>)
    ELSE NotifyCompleted(
             ParseAndAttach(called.v,
                 lg \o called.log \o <<[Ev("gateway", backend, None) EXCEPT !.text = called.v]>>),
             called.v, hasCb, failAt)

(* The inner try block: the provider call, the parse, the notification. *)
CallAndParse(model, online, c, ans, hasCb, failAt, lg) ==
    AfterCall(Backend(model, online), CallProvider(model, online, c, ans, hasCb, failAt),
              hasCb, failAt, lg)

(* if api_key: the request to the endpoint, if the provider name has one,
   and the verdict of _validate_api_key. *)
ValidationLog(provider, api_key, valid) ==
    IF api_key = None THEN <<>>
    ELSE (IF provider \in ValidationEndpoints
          THEN <<Ev("validate-request", provider, api_key)>>
          ELSE <<>>)
             \o <<[Ev("validate", provider, api_key) EXCEPT !.ok = valid]>>

(* The body of the outer try, with provider the provider of the if block,
   suffix the provider of the prompt suffix, valid the verdict on api_key
   and c1 the credentials after the if block. *)
EvaluateBody(model, api_key, hasCb, online, c1, provider, suffix, valid, ans, failAt) ==
    IF api_key # None /\ ~valid
    THEN Raised(<<"Invalid API key for ", provider>>,
                ValidationLog(provider, api_key, valid))
    ELSE InnerExcept(CallAndParse(model, online, c1, ans, hasCb, failAt,
             Append(ValidationLog(provider, api_key, valid), Ev("prompt", suffix, None))))

(* The if block swapping the handle before the verdict is looked at. *)
EvaluateWithEagerSwap(model, api_key, hasCb, online, c, provider, suffix, valid, ans, failAt) ==
    [c |-> IF api_key # None THEN SwapClient(c, provider, api_key) ELSE c,
     out |-> OuterExcept(EvaluateBody(model, api_key, hasCb, online,
                 IF api_key # None THEN SwapClient(c, provider, api_key) ELSE c,
                 provider, suffix, valid, ans, failAt))]

(* The if block, which swaps the handle of the provider once api_key is
   found valid, and the body under the outer except. *)
EvaluateWith(model, api_key, hasCb, online, c, provider, suffix, valid, ans, failAt) ==
    [c |-> IF api_key # None /\ valid THEN SwapClient(c, provider, api_key) ELSE c,
     out |-> OuterExcept(EvaluateBody(model, api_key, hasCb, online,
                 IF api_key # None /\ valid THEN SwapClient(c, provider, api_key) ELSE c,
                 provider, suffix, valid, ans, failAt))]

(* evaluate_submission(model, update_callback, api_key) in the registry
   local, online with the credentials c.  accepted: whether the endpoint
   accepts api_key; ans: what the backend does; hasCb, failAt: whether a
   callback is given and at which of its invocations it raises.  The
   result: the credentials afterwards and what is returned or raised. *)
EvaluateSubmission(model, api_key, hasCb, local, online, c, accepted, ans, failAt) ==
    EvaluateWith(model, api_key, hasCb, online, c,
                 ProviderOf(model, local, online), ProviderOf(model, local, online),
                 ValidateApiKey(ProviderOf(model, local, online), accepted), ans, failAt)

-----------------------------------------------------------------------------
(* The system: one caller at a time *)

(* The replies a backend may give in the system specification. *)
ReplyGood == <<"{", QT, "score", QT, ":", SP, "1", "5", "}">>
ReplyHigh == <<"{", QT, "score", QT, ":", SP, "2", "5", "}">>
ReplyNoScore == <<"{", "}">>
ReplyArray == <<"[", "1", "]">>
ReplyProse ==
    <<"Based", SP, "on", SP, "review", ":", SP, "Score", ":", SP, "1", "5", "/", "2", "0",
      ".", SP, "Feedback", ":", SP, "Good", SP, "work", SP, "overall", ".">>

Replies == {ReplyGood, ReplyHigh, ReplyNoScore, ReplyArray, ReplyProse}

RequestModels == {ListedModel, DefaultModel}

(* The most chunks a stream is cut into. *)
MaxFrags == 2

(* The text r cut into n chunks of nearly equal length. *)
Chunks(r, n) ==
    [k \in 1..n |-> Chunk(SubSeq(r, ((k - 1) * Len(r)) \div n + 1, (k * Len(r)) \div n))]

HostedAnswers ==
    {Answer("reply", JStr(r), <<>>) : r \in Replies}
        \cup {Answer("reply", JNull, <<>>), Answer("notok", JNull, <<>>), Answer("error", JNull, <<>>)}

LocalAnswers ==
    {Answer("reply", JNull, Chunks(r, n)) : r \in Replies, n \in 1..MaxFrags}
        \cup {Answer("reply", JNull, <<NoMessageChunk>> \o Chunks(ReplyGood, 1)),
              Answer("error", JNull, <<>>),
              Answer("error", JNull, SubSeq(Chunks(ReplyGood, MaxFrags), 1, 1))}

Answers(backend) == IF backend = "local" THEN LocalAnswers ELSE HostedAnswers

(* What a call of evaluate_submission leaves behind; the log starts with
   the request: the model, the api_key, as ok whether a callback was given
   and as accepts whether the endpoint accepts the api_key. *)
Evaluated(model, api_key, hasCb, accepted, r) ==
    /\ openai_client' = r.c.openai
    /\ claude_client' = r.c.claude
    /\ groq_api_key' = r.c.groq
    /\ result' = [raised |-> r.out.raised, msg |-> r.out.msg, v |-> r.out.v]
    /\ log' = <<[Ev("request", model, api_key) EXCEPT !.ok = hasCb, !.accepts = accepted]>>
                   \o r.out.log

(* A call of evaluate_submission. *)
Evaluate ==
    /\ pc = "idle"
    /\ \E model \in RequestModels, api_key \in {None, UserKey}, hasCb \in BOOLEAN :
         \E accepted \in IF api_key = None THEN {FALSE} ELSE BOOLEAN,
            ans \in Answers(Backend(model, online_models)),
            failAt \in IF hasCb THEN 0..(MaxFrags + 1) ELSE {0} :
              Evaluated(model, api_key, hasCb, accepted,
                  EvaluateSubmission(model, api_key, hasCb, local_models, online_models,
                      Clients(openai_client, claude_client, groq_api_key),
                      accepted, ans, failAt))
    /\ pc' = "returned"
    /\ UNCHANGED <<local_models, online_models, inflight>>

(* The caller takes what the call handed back: the call has ended, it is
   neither in refresh_available_models nor in evaluate_submission. *)
Return ==
    /\ pc \notin {"idle", "refreshing", "evaluating"}
    /\ pc' = "idle"
    /\ result' = NoResult
    /\ log' = <<>>
    /\ inflight' = NoCall
    /\ UNCHANGED <<local_models, online_models, openai_client, claude_client, groq_api_key>>

Next == Evaluate \/ Refresh \/ Return

Spec == Init /\ [][Next]_vars

-----------------------------------------------------------------------------
(* The response parser on its own *)

(* The stages _parse_json_response runs on the sanitized text: the direct
   parse, with what it made of the text, and when that fails the
   extraction, with the span it found. *)
DirectTrace(cleaned) ==
    <<[Ev("direct", "parser", None) EXCEPT
           !.ok = JsonLoads(cleaned).ok, !.rec = JsonLoads(cleaned).v]>>
        \o (IF JsonLoads(cleaned).ok THEN <<>>
            ELSE <<[Ev("extract", "parser", None) EXCEPT
                        !.ok = ~ExtractJsonObject(cleaned).raised,
                        !.text = JStr(ExtractJsonObject(cleaned).s)]>>)

(* The stages _parse_json_response runs on response, in order: the call,
   sanitizing (which raises on what is no text), then the stages on the
   sanitized text. *)
ParserTrace(response) ==
    <<[Ev("parse", "parser", None) EXCEPT !.text = response]>>
        \o (IF response.ty # "str"
            THEN <<[Ev("sanitize", "parser", None) EXCEPT !.ok = FALSE]>>
            ELSE <<[Ev("sanitize", "parser", None) EXCEPT
                        !.text = JStr(SanitizeJsonText(response.s))]>>
                     \o DirectTrace(SanitizeJsonText(response.s)))

(* JSON objects a reply may hold: the values of their strings contain what
   opens a line comment or delimits a block comment. *)
ObjectPlain == ReplyGood
ObjectUrl ==
    <<"{", QT, "feedback", QT, ":", SP, QT, "see", SP, "http", ":", "/", "/", "x", QT, "}">>
ObjectStars ==
    <<"{", QT, "feedback", QT, ":", SP, QT, "a", SP, "/", "*", "b", "*", "/", SP, "c", QT, "}">>
ObjectNested ==
    <<"{", QT, "breakdown", QT, ":", SP, "{", QT, "question", QT, ":", SP, "5", "}", "}">>
Objects == {ObjectPlain, ObjectUrl, ObjectStars, ObjectNested}

(* Prose before and after an object. *)
Prefixes == {<<>>, <<"Here", SP, "is", SP, "the", SP, "result", ":", SP>>}
Suffixes == {<<>>, <<SP, "Thanks", ".">>, <<NL, "Done">>}

(* obj between the prose pre and post. *)
Embedded(pre, obj, post) == pre \o obj \o post

(* The language tags after an opening fence; <<>> is no tag. *)
FenceTags == {<<>>, <<"json">>, <<"python">>, <<"JSON">>}

(* obj wrapped in a fenced code block with the language tag. *)
Fenced(tag, obj) == <<BT, BT, BT>> \o tag \o <<NL>> \o obj \o <<NL, BT, BT, BT>>

(* The longest garbage text. *)
MaxGarbage == 3

GarbageSymbols == {"{", "}", QT, "x", "1"}

(* Every text of at most n garbage symbols. *)
Garbage(n) == UNION {[1..k -> GarbageSymbols] : k \in 0..n}

(* What the parser may be handed: a text or, from a provider that answered
   with a null content, None. *)
ParserInputs ==
    {JNull}
        \cup {JStr(t) : t \in Replies \cup Garbage(MaxGarbage)}
        \cup {JStr(Embedded(pre, obj, post)) : pre \in Prefixes, obj \in Objects, post \in Suffixes}
        \cup {JStr(Fenced(tag, obj)) : tag \in FenceTags, obj \in Objects}

ParserInit ==
    /\ local_models = {}
    /\ online_models = <<>>
    /\ openai_client = None
    /\ claude_client = None
    /\ groq_api_key = None
    /\ pc = "idle"
    /\ result = NoResult
    /\ log = <<>>
    /\ inflight = NoCall

(* A call of _parse_json_response. *)
ParseReply ==
    /\ pc = "idle"
    /\ \E response \in ParserInputs :
           /\ result' = ParseJsonResponse(response)
           /\ log' = ParserTrace(response)
    /\ pc' = "parsed"
    /\ UNCHANGED <<local_models, online_models, openai_client, claude_client, groq_api_key,
                   inflight>>

ParserNext == ParseReply \/ Return

ParserSpec == ParserInit /\ [][ParserNext]_vars

-----------------------------------------------------------------------------
(* Properties of _parse_json_response *)

(* The events of the log lg of kind ev. *)
Events(lg, ev) == {i \in DOMAIN lg : lg[i].ev = ev}

(* A stage of the logged parse raised what is no decode error. *)
ParserStageRaised(lg) == \E i \in Events(lg, "sanitize") \cup Events(lg, "extract") : ~lg[i].ok

(* C4: _parse_json_response never raises: any unexpected failure in
   sanitizing, direct parsing, extraction or heuristic extraction is
   converted into the fallback record: score 0, feedback "Error parsing
   model response", the single improvements item "Unable to parse model
   response", a breakdown whose error key holds the description of the
   exception, and as raw output the original input. *)
C4_ParserNeverRaises ==
    pc = "parsed" =>
        /\ ~result.raised
        /\ ParserStageRaised(log) =>
               /\ result.v.ty = "obj"
               /\ DOMAIN result.v.o = {kScore, kFeedback, kImprovements, kBreakdown, kRaw}
               /\ result.v.o[kScore] = JInt(0)
               /\ result.v.o[kFeedback] = JStr(<<"Error parsing model response">>)
               /\ result.v.o[kImprovements] = JArr(<<JStr(<<"Unable to parse model response">>)>>)
               /\ HasKey(result.v.o[kBreakdown], kError)
               /\ result.v.o[kBreakdown].o[kError].ty = "str"
               /\ result.v.o[kBreakdown].o[kError].s # <<>>
               /\ result.v.o[kRaw] = log[1].text

(* A parse of a text that is not empty returned after the extraction
   raised. *)
C4_Witness ==
    /\ pc = "parsed"
    /\ \E i \in Events(log, "extract") : ~log[i].ok
    /\ log[1].text.ty = "str"
    /\ log[1].text.s # <<>>
    /\ ~result.raised

(* C6: for every reply that is one valid JSON object surrounded by prose,
   so that the direct parse of the whole text fails, the extraction returns
   that object, without failing, and the result of the parser is the
   parsed object. *)
C6_EmbeddedObjectRecovered ==
    pc = "parsed" =>
        \A pre \in Prefixes, obj \in Objects, post \in Suffixes :
            (/\ log[1].text = JStr(Embedded(pre, obj, post))
             /\ ~JsonLoads(Embedded(pre, obj, post)).ok)
            => /\ \E i \in Events(log, "extract") : log[i].ok /\ log[i].text = JStr(obj)
               /\ result.v = JsonLoads(obj).v

(* C7: for every well-formed JSON object wrapped in a fenced code block,
   whatever language tag or none follows the opening fence and whatever the
   string values hold, sanitizing and then parsing the whole text gives
   exactly the fields of the object. *)
C7_FencedJsonRecovered ==
    pc = "parsed" =>
        \A tag \in FenceTags, obj \in Objects :
            log[1].text = JStr(Fenced(tag, obj)) =>
                \E i \in Events(log, "direct") :
                    log[i].ok /\ log[i].rec = JsonLoads(obj).v

-----------------------------------------------------------------------------
(* Properties of evaluate_submission and refresh_available_models *)

(* The text msg ends the text feedback, after a prefix. *)
Describes(feedback, msg) ==
    /\ Len(feedback) > Len(msg)
    /\ SubSeq(feedback, Len(feedback) - Len(msg) + 1, Len(feedback)) = msg

(* A record reporting a failure: score 0, a feedback ending with the
   description of the failure that breakdown holds under error, and one
   improvements item. *)
FailureRecord(v) ==
    /\ v.ty = "obj"
    /\ {kScore, kFeedback, kImprovements, kBreakdown} \subseteq DOMAIN v.o
    /\ v.o[kScore] = JInt(0)
    /\ v.o[kImprovements].ty = "arr"
    /\ Len(v.o[kImprovements].a) = 1
    /\ HasKey(v.o[kBreakdown], kError)
    /\ v.o[kBreakdown].o[kError].ty = "str"
    /\ v.o[kBreakdown].o[kError].s # <<>>
    /\ v.o[kFeedback].ty = "str"
    /\ Describes(v.o[kFeedback].s, v.o[kBreakdown].o[kError].s)

(* The validation or the provider call of the logged evaluation failed. *)
StageFailed(lg) == \E i \in Events(lg, "validate") \cup Events(lg, "gateway") : ~lg[i].ok

(* C1: evaluate_submission never raises to its caller: whatever the request
   and the outcome of validation, provider call, parsing and notification,
   it returns a record, and when the validation or the provider call failed
   the record has score 0, a feedback describing the failure, exactly one
   improvements item and a breakdown holding an error key. *)
C1_EvaluateNeverRaises ==
    pc = "returned" =>
        /\ ~result.raised
        /\ result.v.ty = "obj"
        /\ StageFailed(log) => FailureRecord(result.v)

(* An evaluation returned after its provider call failed while a callback
   was given. *)
C1_Witness ==
    /\ pc = "returned"
    /\ log[1].ok
    /\ \E i \in Events(log, "gateway") : ~log[i].ok
    /\ FailureRecord(result.v)

(* A number within 0..20. *)
ScoreInRange(v) == v.ty = "num" /\ v.n >= 0 /\ ~GreaterThan(v, MaxScore)

(* C2: every record evaluate_submission returns has a score that is present,
   numeric and within 0..20, whichever path produced it. *)
C2_ScoreAlwaysValid ==
    pc = "returned" =>
        /\ HasKey(result.v, kScore)
        /\ ScoreInRange(result.v.o[kScore])

(* C3: whenever the provider call returned a reply text, the record returned
   carries that exact text as its raw output. *)
C3_RawOutputKept ==
    pc = "returned" =>
        \A i \in Events(log, "gateway") :
            (log[i].ok /\ log[i].text.ty = "str") =>
                /\ HasKey(result.v, kRaw)
                /\ result.v.o[kRaw] = log[i].text

(* C5: for the reply "Based on review: Score: 15/20. Feedback: Good work
   overall.", which holds no JSON, evaluate_submission yields the result of
   the heuristic extraction: score 15, feedback "Good work overall.", no
   improvements and an empty breakdown. *)
C5_ProseReachesHeuristic ==
    pc = "returned" =>
        \A i \in Events(log, "gateway") :
            (log[i].ok /\ log[i].text = JStr(ReplyProse) /\ Events(log, "notify") = {}) =>
                /\ HasKey(result.v, kScore)
                /\ result.v.o[kScore] = JInt(15)
                /\ result.v.o[kFeedback] = JStr(<<"Good", SP, "work", SP, "overall", ".">>)
                /\ result.v.o[kImprovements] = JArr(<<>>)
                /\ result.v.o[kBreakdown] = JObj(EmptyDict)

(* The hosted endpoint that validates the keys of a provider. *)
EndpointOf(p) == IF p = "claude" THEN "anthropic" ELSE p

(* The registry lists the model under the hosted provider p and nowhere
   else. *)
ListedOnlyUnder(model, p) ==
    /\ model \notin local_models
    /\ \A q \in HostedProviders : model \in OnlineGet(online_models, q) <=> q = p

(* C8: for each hosted provider, an evaluation called with an override key
   for a model listed under that provider, the endpoint accepting the key,
   validates the key against the endpoint of that provider, replaces the
   handle of that provider and of no other by the key, and calls the
   provider with it. *)
C8_OverrideKeySwapped ==
    [][\A p \in HostedProviders :
          (/\ pc = "idle"
           /\ pc' = "returned"
           /\ log'[1].key # None
           /\ log'[1].accepts
           /\ ListedOnlyUnder(log'[1].who, p))
          => /\ \E i \in Events(log', "validate-request") :
                    log'[i].who = EndpointOf(p) /\ log'[i].key = log'[1].key
             /\ Clients(openai_client', claude_client', groq_api_key')[p] = log'[1].key
             /\ \A q \in HostedProviders \ {p} :
                    Clients(openai_client', claude_client', groq_api_key')[q]
                        = Clients(openai_client, claude_client, groq_api_key)[q]
             /\ \E i \in Events(log', "call") :
                    log'[i].who = p /\ log'[i].key = log'[1].key]_vars

(* C9: an evaluation whose override key validation rejects changes no
   handle (openai_client, claude_client, groq_api_key), never invokes the
   provider, and returns a failure record whose feedback names the provider
   the key was rejected for. *)
C9_RejectedKeyChangesNothing ==
    [][(/\ pc = "idle"
        /\ pc' = "returned"
        /\ \E i \in Events(log', "validate") : ~log'[i].ok)
       => /\ UNCHANGED <<openai_client, claude_client, groq_api_key>>
          /\ Events(log', "call") \cup Events(log', "gateway") = {}
          /\ FailureRecord(result'.v)
          /\ \A i \in Events(log', "validate") :
                 \E j \in DOMAIN result'.v.o[kFeedback].s :
                     result'.v.o[kFeedback].s[j] = log'[i].who]_vars

(* An evaluation returned after the endpoint of a provider that held a
   handle rejected the override key. *)
C9_Witness ==
    /\ pc = "returned"
    /\ \E i \in Events(log, "validate-request") : log[i].who = "openai"
    /\ \E i \in Events(log, "validate") : ~log[i].ok
    /\ openai_client = OpenAIEnvKey
    /\ FailureRecord(result.v)

(* The list the registry holds for the provider who. *)
ListOf(who) == IF who = "local" THEN local_models ELSE OnlineGet(online_models, who)

(* C10: after refresh_available_models, every provider whose listing query
   failed (exception, timeout or response that is not OK) has an empty list,
   and every provider whose query succeeded holds the models just fetched:
   no failure empties the list of another provider, and no failed provider
   keeps an earlier list. *)
C10_RefreshIsolatesFailures ==
    pc = "refreshed" =>
        \A i \in Events(log, "list") :
            ListOf(log[i].who) = (IF log[i].ok THEN log[i].ids ELSE {})

-----------------------------------------------------------------------------
(* refresh_available_models with callers on other threads: the refresh waits
   in the request of each of its blocks, and meanwhile a caller may run *)

RefreshStages == <<"local", "openai", "claude", "groq">>

(* One block of refresh_available_models alone, on the registry r: the
   blocks after it are passed over for want of a credential. *)
RefreshBlock(stage, r, oc, cc, gk, out) ==
    CASE stage = "local" ->
             Registry(RefreshAvailableModels(r.local, r.online, None, None, None, out).local,
                      r.online,
                      r.log \o RefreshAvailableModels(r.local, r.online, None, None, None, out).log)
      [] stage = "openai" -> RefreshOpenAI(r, oc, None, None, out)
      [] stage = "claude" -> RefreshClaude(r, cc, None, out)
      [] stage = "groq" -> RefreshGroq(r, gk, out)

(* The block raised to the except clause of the function, which ends it. *)
BlockAborts(stage, oc, cc, gk, out) ==
    \/ stage = "openai" /\ oc # None /\ out.openai.kind # "ok"
    \/ stage = "claude" /\ cc # None /\ out.claude.kind = "reqexc"
    \/ stage = "groq" /\ gk # None /\ out.groq.kind = "reqexc"

(* refresh_available_models is entered; before is the registry it finds. *)
StartRefresh ==
    /\ pc = "idle"
    /\ pc' = "refreshing"
    /\ inflight' = [kind |-> "refresh", stage |-> 1,
                    before |-> Registry(local_models, online_models, <<>>)]
    /\ log' = <<>>
    /\ result' = NoResult
    /\ UNCHANGED <<local_models, online_models, openai_client, claude_client, groq_api_key>>

(* The request of the next block ends and the block assigns its list; the
   function ends after the last block or in its except clause. *)
RefreshStep ==
    /\ pc = "refreshing"
    /\ \E out \in RefreshOutcomes(openai_client, claude_client, groq_api_key) :
           /\ Refreshed(RefreshBlock(RefreshStages[inflight.stage],
                                     Registry(local_models, online_models, log),
                                     openai_client, claude_client, groq_api_key, out))
           /\ pc' = IF \/ inflight.stage = Len(RefreshStages)
                       \/ BlockAborts(RefreshStages[inflight.stage],
                                      openai_client, claude_client, groq_api_key, out)
                    THEN "refreshed" ELSE "refreshing"
    /\ inflight' = [inflight EXCEPT !.stage = @ + 1]
    /\ result' = NoResult
    /\ UNCHANGED <<openai_client, claude_client, groq_api_key>>

(* The most calls of other threads during one refresh. *)
MaxReads == 1

(* A call of _get_provider_from_model on another thread while the refresh
   waits. *)
ResolveDuringRefresh ==
    /\ pc = "refreshing"
    /\ Cardinality({i \in DOMAIN log : log[i].ev = "resolve"}) < MaxReads
    /\ log' = Append(log, Ev("resolve", GetProviderFromModel(ListedModel), ListedModel))
    /\ UNCHANGED <<local_models, online_models, openai_client, claude_client, groq_api_key,
                   pc, result, inflight>>

(* A call of _get_provider_from_model while nothing else runs. *)
Resolve ==
    /\ pc = "idle"
    /\ pc' = "resolved"
    /\ \E model \in RequestModels :
           log' = <<Ev("resolve", GetProviderFromModel(model), model)>>
    /\ UNCHANGED <<local_models, online_models, openai_client, claude_client, groq_api_key,
                   result, inflight>>

ThreadsNext == StartRefresh \/ RefreshStep \/ ResolveDuringRefresh \/ Resolve \/ Return

ThreadsSpec == Init /\ [][ThreadsNext]_vars

(* C11: a call of _get_provider_from_model that runs during a refresh sees
   the mapping as it was before the refresh or as it is after it: it
   resolves the model to the provider it had before or to the one it has
   after, never to one that only a half-refreshed mapping gives. *)
C11_RefreshSeenAtomically ==
    pc = "refreshed" =>
        \A i \in Events(log, "resolve") :
            log[i].who \in {ProviderOf(ListedModel, inflight.before.local, inflight.before.online),
                            GetProviderFromModel(ListedModel)}

(* The hosted providers whose cached list holds the model. *)
HostsOf(model) == {q \in HostedProviders : model \in OnlineGet(online_models, q)}

(* C12: _get_provider_from_model resolves a model id that the cached list
   of a hosted provider holds to the tag of a provider holding it, also
   when the local list holds the id too, and an id that no list holds to
   "local". *)
C12_HostedIdResolvesToHost ==
    pc = "resolved" =>
        \A i \in Events(log, "resolve") :
            /\ HostsOf(log[i].key) # {} => log[i].who \in HostsOf(log[i].key)
            /\ (HostsOf(log[i].key) = {} /\ log[i].key \notin local_models)
                   => log[i].who = "local"

-----------------------------------------------------------------------------
(* Further properties of evaluate_submission *)

(* C13: nothing is retried: one evaluate_submission call issues at most one
   provider call and at most one key validation request, and after a
   provider call that failed or timed out it returns the failure record
   without calling a provider again. *)
C13_NothingRetried ==
    pc = "returned" =>
        /\ Cardinality(Events(log, "call")) <= 1
        /\ Cardinality(Events(log, "gateway")) <= 1
        /\ Cardinality(Events(log, "validate-request")) <= 1
        /\ \A i \in Events(log, "gateway") :
               ~log[i].ok => i = Len(log) /\ FailureRecord(result.v)

(* An evaluation returned after the request of its provider call failed. *)
C13_Witness ==
    /\ pc = "returned"
    /\ \E i \in Events(log, "call") : ~log[i].ok
    /\ \E i \in Events(log, "gateway") : ~log[i].ok
    /\ FailureRecord(result.v)

(* The notifications of the streaming call in the log lg, in order. *)
IsStreamNote(e) == e.ev = "notify" /\ e.who = "streaming"
StreamNotes(lg) == SelectSeq(lg, IsStreamNote)

(* Of the streamed chunks f, those that carry a text. *)
IsText(v) == v.ty = "str"
TextFragments(f) == SelectSeq(f, IsText)

(* The texts of the first k of the fragments f, joined. *)
RECURSIVE Joined(_, _)
Joined(f, k) == IF k = 0 THEN <<>> ELSE Joined(f, k - 1) \o f[k].s

(* The streaming calls of the log lg. *)
StreamCalls(lg) == {i \in Events(lg, "call") : lg[i].who = "local"}

(* C14, as the code has it: in _call_ollama_api the callback is invoked once
   per received chunk that is a dict with a message, in arrival order, with
   the contents of the first k such chunks joined at its k-th invocation,
   and the call returns the contents of all of them joined; a chunk of any
   other kind is passed over without a notification. *)
C14_MessageChunksNotifiedInOrder ==
    pc = "returned" =>
        \A c \in StreamCalls(log) :
            /\ \A k \in 1..Len(StreamNotes(log)) :
                   /\ k <= Len(TextFragments(log[c].rec.a))
                   /\ StreamNotes(log)[k].text = JStr(Joined(TextFragments(log[c].rec.a), k))
            /\ \A i \in Events(log, "gateway") :
                   log[i].ok =>
                       /\ log[i].text = JStr(Joined(TextFragments(log[c].rec.a),
                                                    Len(TextFragments(log[c].rec.a))))
                       /\ log[1].ok =>
                              Len(StreamNotes(log)) = Len(TextFragments(log[c].rec.a))

(* A streaming call returned after notifying two fragments and passing over
   no chunk. *)
C14_Witness ==
    /\ pc = "returned"
    /\ \E c \in StreamCalls(log) : Len(TextFragments(log[c].rec.a)) >= 2
    /\ \E i \in Events(log, "gateway") : log[i].ok
    /\ Len(StreamNotes(log)) >= 2
    /\ StreamNotes(log)[1].text # StreamNotes(log)[2].text

(* C14, as stated: the callback is invoked exactly once per received
   fragment, whatever the fragment. *)
C14_EveryFragmentNotified ==
    pc = "returned" =>
        \A c \in StreamCalls(log), i \in Events(log, "gateway") :
            (log[i].ok /\ log[1].ok) => Len(StreamNotes(log)) = Len(log[c].rec.a)

-----------------------------------------------------------------------------
(* evaluate_submission against endpoints that may never answer *)

(* Whether the key validation request to the endpoint carries a timeout:
   the two requests.get calls do, models.list() of the openai client is
   given none. *)
ValidationTimeout(endpoint) == endpoint \in {"groq", "anthropic"}

(* Whether the request of the provider call carries a timeout: requests.post
   to groq does; chat.completions.create, messages.create and ollama.chat
   are given none, so how long they wait is left to the library. *)
CallTimeout(backend) == backend = "groq"

(* What an endpoint may do to a validation request. *)
Verdicts == {"accept", "reject", "silent"}

(* A backend that never answers. *)
SilentAnswer == Answer("silent", JNull, <<>>)

(* The evaluation of the request f, taken to its end: a request that is not
   answered ends in the Timeout exception of requests. *)
Completion(f) ==
    EvaluateSubmission(f.model, f.api_key, f.hasCb, local_models, online_models,
                       Clients(openai_client, claude_client, groq_api_key),
                       f.verdict = "accept", f.ans, 0)

(* The evaluation of the request f sends a request that is never answered
   and carries no timeout; lg is the log of its completion. *)
WaitsForever(f, lg) ==
    \/ /\ f.verdict = "silent"
       /\ \E i \in DOMAIN lg : lg[i].ev = "validate-request" /\ ~ValidationTimeout(lg[i].who)
    \/ /\ f.ans.kind = "silent"
       /\ \E i \in DOMAIN lg : lg[i].ev = "call" /\ ~CallTimeout(lg[i].who)

(* The frame of the evaluation of the request f, which the endpoints let end
   as r or keep waiting. *)
Frame(f, r) ==
    [kind |-> "evaluate", request |-> f, waits |-> WaitsForever(f, r.out.log), completion |-> r]

(* evaluate_submission is entered. *)
StartEvaluate ==
    /\ pc = "idle"
    /\ pc' = "evaluating"
    /\ \E model \in RequestModels, api_key \in {None, UserKey}, hasCb \in BOOLEAN :
         \E verdict \in IF api_key = None THEN {"reject"} ELSE Verdicts,
            ans \in Answers(Backend(model, online_models)) \cup {SilentAnswer} :
              inflight' = Frame([model |-> model, api_key |-> api_key, hasCb |-> hasCb,
                                 verdict |-> verdict, ans |-> ans],
                                Completion([model |-> model, api_key |-> api_key,
                                            hasCb |-> hasCb, verdict |-> verdict, ans |-> ans]))
    /\ UNCHANGED <<local_models, online_models, openai_client, claude_client, groq_api_key,
                   result, log>>

(* evaluate_submission returns, once every request it sent has ended. *)
FinishEvaluate ==
    /\ pc = "evaluating"
    /\ ~inflight.waits
    /\ Evaluated(inflight.request.model, inflight.request.api_key, inflight.request.hasCb,
                 inflight.request.verdict = "accept", inflight.completion)
    /\ pc' = "returned"
    /\ UNCHANGED <<local_models, online_models, inflight>>

WaitingNext == StartEvaluate \/ FinishEvaluate \/ Return

(* The thread in evaluate_submission is scheduled: it returns when it can. *)
WaitingSpec == Init /\ [][WaitingNext]_vars /\ WF_vars(FinishEvaluate)

(* C15: every evaluate_submission call returns in the end, each request on
   its path carrying a timeout: a backend that never answers leads to a
   failure record, not to an evaluation that waits forever. *)
C15_EvaluationReturns == (pc = "evaluating") ~> (pc = "returned")

-----------------------------------------------------------------------------
(* The HTTP layer: POST /api/grade *)

(* status_code of the HTTPException that grade_submission raises. *)
StatusError == 500

(* The try block of grade_submission once evaluate_submission came back
   with r: what it raised goes on; a record becomes the data of an
   APIResponse, whose field data: Dict accepts a dict and nothing else. *)
GradeBody(r) ==
    IF r.raised THEN PRaised(r.msg)
    ELSE IF r.v.ty # "obj" THEN PRaised(<<"validation error for APIResponse">>)
    ELSE PReturned(JObj(DictSet(DictSet(DictSet(EmptyDict,
             <<"status">>, JStr(<<"success">>)),
             <<"data">>, r.v),
             <<"message">>, JStr(<<"Grading completed successfully">>))))

(* An except clause that also refuses a record holding an error. *)
GradeExceptStrict(b) ==
    IF b.raised \/ (HasKey(b.v.o[<<"data">>], kBreakdown)
                        /\ HasKey(b.v.o[<<"data">>].o[kBreakdown], kError))
    THEN [raised |-> TRUE, msg |-> <<"Grading failed: ">> \o b.msg, v |-> JInt(StatusError)]
    ELSE b

(* except Exception as e: raise HTTPException(status_code=500, detail=...) *)
GradeExcept(b) ==
    IF b.raised
    THEN [raised |-> TRUE, msg |-> <<"Grading failed: ">> \o b.msg, v |-> JInt(StatusError)]
    ELSE b

(* grade_submission(request): evaluate_submission is called with the model
   of the request, no api_key and no callback. *)
GradeSubmission(out) == GradeExcept(GradeBody(out))

(* What a request leaves behind: the response, and in the log the request,
   the log of the evaluation and as "evaluate" whether evaluate_submission
   returned (ok) or raised. *)
Graded(model, r) ==
    /\ openai_client' = r.c.openai
    /\ claude_client' = r.c.claude
    /\ groq_api_key' = r.c.groq
    /\ result' = GradeSubmission(r.out)
    /\ log' = <<Ev("request", model, None)>> \o r.out.log
                  \o <<[Ev("evaluate", model, None) EXCEPT !.ok = ~r.out.raised]>>

(* A request POST /api/grade. *)
Grade ==
    /\ pc = "idle"
    /\ \E model \in RequestModels :
         \E ans \in Answers(Backend(model, online_models)) :
              Graded(model,
                  EvaluateSubmission(model, None, FALSE, local_models, online_models,
                      Clients(openai_client, claude_client, groq_api_key),
                      FALSE, ans, 0))
    /\ pc' = "responded"
    /\ UNCHANGED <<local_models, online_models, inflight>>

ApiNext == Grade \/ Refresh \/ Return

ApiSpec == Init /\ [][ApiNext]_vars

(* A degraded grade record: score 0, a feedback text and a breakdown whose
   error entry is a text, neither of them empty. *)
DegradedRecord(v) ==
    /\ v.ty = "obj"
    /\ {kScore, kFeedback, kBreakdown} \subseteq DOMAIN v.o
    /\ v.o[kScore] = JInt(0)
    /\ v.o[kFeedback].ty = "str"
    /\ v.o[kFeedback].s # <<>>
    /\ HasKey(v.o[kBreakdown], kError)
    /\ v.o[kBreakdown].o[kError].ty = "str"
    /\ v.o[kBreakdown].o[kError].s # <<>>

(* The response is a normal one with status "success" and a degraded
   record as data. *)
SuccessDegraded(res) ==
    /\ ~res.raised
    /\ res.v.ty = "obj"
    /\ res.v.o[<<"status">>] = JStr(<<"success">>)
    /\ DegradedRecord(res.v.o[<<"data">>])

(* The reply text is no JSON, as it is and once sanitized; None is no text
   at all. *)
Unparseable(text) ==
    \/ text.ty # "str"
    \/ ~JsonLoads(text.s).ok /\ ~JsonLoads(SanitizeJsonText(text.s)).ok

(* C16: POST /api/grade answers HTTP 500 only when evaluate_submission
   raised; when the provider call failed or the reply of the model cannot
   be parsed, the response is a normal one with status "success" whose data
   is the degraded record: score 0 and the failure told in feedback and in
   breakdown.error. *)
C16_ApiFailsOnlyOnRaise ==
    pc = "responded" =>
        /\ result.raised =>
               \E i \in Events(log, "evaluate") : ~log[i].ok
        /\ \A i \in Events(log, "gateway") :
               (~log[i].ok \/ Unparseable(log[i].text)) => SuccessDegraded(result)

(* A request answered with status "success" and the degraded record after
   the provider replied a text that is no JSON. *)
C16_Witness ==
    /\ pc = "responded"
    /\ \E i \in Events(log, "gateway") : log[i].ok /\ log[i].text = JStr(ReplyProse)
    /\ SuccessDegraded(result)

-----------------------------------------------------------------------------
(* The heuristic extraction on its own *)

(* The block of _parse_json_response after `if json_str: ...` (the
   "fallback to structured extraction"), as its statements run on a
   sanitized text that is no JSON and in which the extraction found no
   object.  The texts are built of phrases, so that what each pattern is to
   find in a text is known from how the text was built. *)

(* A number as written and as float() reads it. *)
Num(t, v) == [t |-> t, v |-> v]
N3 == Num(<<"3">>, JInt(3))
N7 == Num(<<"7">>, JInt(7))
N8 == Num(<<"8">>, JInt(8))
N9 == Num(<<"9">>, JInt(9))
N12 == Num(<<"1", "2">>, JInt(12))
N15 == Num(<<"1", "5">>, JInt(15))
N25 == Num(<<"2", "5">>, JInt(25))
N37 == Num(<<"3", "7">>, JInt(37))
N7h == Num(<<"7", ".", "5">>, JNum(7, <<"5">>))
N20h == Num(<<"2", "0", ".", "5">>, JNum(20, <<"5">>))

(* A phrase: its text, and what it holds: under kind "label" a score label
   with the number n, under "twenty" the number n out of twenty, under
   "entry" a breakdown label with the digits q and the number n, under
   "other" none of these. *)
Phrase(kind, text, n, q) == [kind |-> kind, text |-> text, n |-> n, q |-> q]

LabelPhrase(label, sep, num) == Phrase("label", <<label>> \o sep \o num.t, num.v, <<>>)
LabelTwentyPhrase(label, sep, num) ==
    Phrase("label", <<label>> \o sep \o num.t \o <<"/", "2", "0">>, num.v, <<>>)
TwentyPhrase(num, form) == Phrase("twenty", num.t \o form, num.v, <<>>)
EntryPhrase(label, gap, q, num) ==
    Phrase("entry", <<label>> \o gap \o q \o <<":", SP>> \o num.t, num.v, q)
OtherPhrase(text) == Phrase("other", text, JInt(0), <<>>)

ScorePhrases ==
    {LabelPhrase("Score", <<":", SP>>, N37),
     LabelPhrase("marks", <<SP>>, N7),
     LabelPhrase("grade", <<":">>, N20h),
     LabelTwentyPhrase("Score", <<":", SP>>, N15),
     TwentyPhrase(N12, <<"/", "2", "0">>),
     TwentyPhrase(N25, <<SP, "out", SP, "of", SP, "2", "0">>),
     TwentyPhrase(N3, <<"/", "twenty">>)}

EntryPhrases ==
    {EntryPhrase("Question", <<SP>>, <<"1">>, N8),
     EntryPhrase("Part", <<SP>>, <<"1">>, N9),
     EntryPhrase("section", <<>>, <<"2">>, N7h),
     EntryPhrase("Question", <<SP>>, <<"0", "1">>, N9)}

OtherPhrases ==
    {OtherPhrase(<<"7">>),
     OtherPhrase(<<"score", SP, "pending">>),
     OtherPhrase(<<"Question", SP, "one", ":", SP, "8">>)}

Phrases == ScorePhrases \cup EntryPhrases \cup OtherPhrases

(* The most phrases in a text. *)
MaxPhrases == 2

(* The text of the phrases ph, each one closed by a period and a space. *)
RECURSIVE Render(_)
Render(ph) ==
    IF ph = <<>> THEN <<>>
    ELSE Head(ph).text \o <<".", SP>> \o Render(Tail(ph))

HeuristicInputs == UNION {[1..k -> Phrases] : k \in 0..MaxPhrases}

(* The structured extraction running on the sanitized text of ph. *)
Extract ==
    /\ pc = "idle"
    /\ \E ph \in HeuristicInputs :
           /\ ~JsonLoads(SanitizeJsonText(Render(ph))).ok
           /\ result' = PReturned(HeuristicExtract(SanitizeJsonText(Render(ph)),
                                                   JStr(Render(ph))))
           /\ log' = <<[Ev("heuristic", "parser", None) EXCEPT !.text = JStr(Render(ph))]>>
           /\ inflight' = [kind |-> "text", phrases |-> ph]
    /\ pc' = "extracted"
    /\ UNCHANGED <<local_models, online_models, openai_client, claude_client, groq_api_key>>

HeuristicNext == Extract \/ Return

HeuristicSpec == ParserInit /\ [][HeuristicNext]_vars

(* The phrases of ph of kind k, in order. *)
OfKind(ph, k) == SelectSeq(ph, LAMBDA x : x.kind = k)

(* The smaller of the number v and twenty. *)
AtMostTwenty(v) == IF v.n >= 20 THEN JInt(20) ELSE v

(* The score the phrases ph call for: the number of the first score label
   if there is one, else the first number out of twenty, else 0; never more
   than twenty. *)
ExpectedScore(ph) ==
    IF OfKind(ph, "label") # <<>> THEN AtMostTwenty(OfKind(ph, "label")[1].n)
    ELSE IF OfKind(ph, "twenty") # <<>> THEN AtMostTwenty(OfKind(ph, "twenty")[1].n)
    ELSE JInt(0)

(* C17: the structured extraction returns, it does not raise, a record
   whose score is within 0..20: the smaller of 20 and the number of the
   first match of the score label pattern, or, only when no label matches,
   of the first number followed by "/20" or "out of 20", and 0 when neither
   is in the text. *)
C17_HeuristicScoreClamped ==
    pc = "extracted" =>
        /\ ~result.raised
        /\ HasKey(result.v, kScore)
        /\ ScoreInRange(result.v.o[kScore])
        /\ result.v.o[kScore] = ExpectedScore(inflight.phrases)

(* The extraction ran on a text that has a number out of twenty before a
   score label with a number above 20, and gave 20. *)
C17_Witness ==
    /\ pc = "extracted"
    /\ Len(inflight.phrases) = 2
    /\ inflight.phrases[1].kind = "twenty"
    /\ inflight.phrases[2] = LabelPhrase("Score", <<":", SP>>, N37)
    /\ result.v.o[kScore] = JInt(20)

(* The key the entry phrase e is written under. *)
KeyOf(e) == <<"question">> \o e.q

(* The mapping the entries es call for: under the key of each entry the
   number of the last entry with that key. *)
ExpectedEntries(es) ==
    [k \in {KeyOf(es[i]) : i \in DOMAIN es} |->
        es[CHOOSE i \in DOMAIN es :
               /\ KeyOf(es[i]) = k
               /\ \A j \in DOMAIN es : j > i => KeyOf(es[j]) # k].n]

ExpectedBreakdown(ph) == ExpectedEntries(OfKind(ph, "entry"))

(* C19: the breakdown of the structured extraction maps question{N} to the
   number of each `question|part|section <N>: <number>` occurrence of the
   text and holds no other key; of several occurrences with the same N,
   under the same label or not, the last one in the text gives the value;
   with no occurrence the breakdown is the empty mapping. *)
C19_BreakdownKeepsLastOccurrence ==
    pc = "extracted" =>
        /\ result.v.o[kBreakdown].ty = "obj"
        /\ DOMAIN result.v.o[kBreakdown].o = DOMAIN ExpectedBreakdown(inflight.phrases)
        /\ \A k \in DOMAIN ExpectedBreakdown(inflight.phrases) :
               result.v.o[kBreakdown].o[k] = ExpectedBreakdown(inflight.phrases)[k]

(* The extraction ran on a text holding "Question 1: 8" and then
   "Part 1: 9", and kept 9 under question1 as the only entry. *)
C19_Witness ==
    /\ pc = "extracted"
    /\ inflight.phrases = <<EntryPhrase("Question", <<SP>>, <<"1">>, N8),
                            EntryPhrase("Part", <<SP>>, <<"1">>, N9)>>
    /\ DOMAIN result.v.o[kBreakdown].o = {<<"question", "1">>}
    /\ result.v.o[kBreakdown].o[<<"question", "1">>] = JInt(9)

-----------------------------------------------------------------------------
(* The sanitizer on its own *)

(* The longest text of comment symbols. *)
MaxText == 8

CommentSymbols == {"/", "*", NL}

(* A text in which a block comment stands between one backtick and two. *)
SplitFence == <<BT, "/", "*", "*", "/", BT, BT, "a", BT, BT, BT>>

(* What the sanitizer is handed: every text of at most MaxText comment
   symbols, fenced objects, and the split fence. *)
SanitizerInputs ==
    UNION {[1..k -> CommentSymbols] : k \in 0..MaxText}
        \cup {Fenced(tag, obj) : tag \in FenceTags, obj \in Objects}
        \cup {SplitFence}

(* A call of _sanitize_json_text(x); the log keeps x. *)
Sanitize ==
    /\ pc = "idle"
    /\ \E x \in SanitizerInputs :
           /\ result' = PReturned(JStr(SanitizeJsonText(x)))
           /\ log' = <<[Ev("sanitize", "input", None) EXCEPT !.text = JStr(x)]>>
    /\ pc' = "sanitized"
    /\ UNCHANGED <<local_models, online_models, openai_client, claude_client, groq_api_key,
                   inflight>>

(* A call of _sanitize_json_text on what the call before returned; the log
   keeps that text. *)
Resanitize ==
    /\ pc = "sanitized"
    /\ result' = PReturned(JStr(SanitizeJsonText(result.v.s)))
    /\ log' = Append(log, [Ev("sanitize", "output", None) EXCEPT !.text = result.v])
    /\ pc' = "resanitized"
    /\ UNCHANGED <<local_models, online_models, openai_client, claude_client, groq_api_key,
                   inflight>>

SanitizerNext == Sanitize \/ Resanitize \/ Return

SanitizerSpec == ParserInit /\ [][SanitizerNext]_vars

(* C18: the sanitizer is idempotent: sanitizing what it returned returns the
   same text, for every input, also where the removal of a comment or of a
   fence joins the symbols around it into a new comment or fence. *)
C18_SanitizerIdempotent ==
    pc = "resanitized" => result.v = log[2].text

-----------------------------------------------------------------------------
(* The provider of the prompt and the backend of the call *)

(* C20: in every call of evaluate_submission the provider whose JSON suffix
   the prompt gets, and the provider an override key was validated against,
   is the provider whose backend the call goes to, whatever the registry
   holds, also for a model listed both locally and under a hosted provider
   or under several hosted providers. *)
C20_SuffixProviderIsBackend ==
    pc = "returned" =>
        \A j \in Events(log, "gateway") :
            /\ \A i \in Events(log, "prompt") : log[i].who = log[j].who
            /\ \A i \in Events(log, "validate") : log[i].who = log[j].who

-----------------------------------------------------------------------------
(* The reach of an override key *)

(* C21: an override api_key affects only the call it was passed to: when an
   evaluation called with an override key that was accepted returns, the
   handles (openai_client, claude_client, groq_api_key) are those the system
   had before the call, so that a later evaluation without an override and
   a later refresh use the credentials of the start. *)
C21_OverrideKeyScopedToCall ==
    [][(/\ pc = "idle"
        /\ pc' = "returned"
        /\ log'[1].key # None
        /\ \E i \in Events(log', "validate") : log'[i].ok)
       => UNCHANGED <<openai_client, claude_client, groq_api_key>>]_vars

-----------------------------------------------------------------------------
(* The completed notification *)

(* The notifications of the log lg with the status who. *)
Notes(lg, who) == {i \in Events(lg, "notify") : lg[i].who = who}

(* The provider call of the logged evaluation returned a reply that the
   parser turned into a dict. *)
ReplyBecameRecord(lg) ==
    \E g \in Events(lg, "gateway") : lg[g].ok /\ ParseJsonResponse(lg[g].text).v.ty = "obj"

(* C22: an evaluation called with a callback delivers at most one
   "completed" notification and no "streaming" one after it; it delivers it
   exactly when the provider call returned and the reply became a record;
   the notification carries the raw text and the record that the call
   returns; none is delivered when the validation or the provider call
   failed. *)
C22_CompletedNotifiedOnce ==
    (pc = "returned" /\ log[1].ok) =>
        /\ Cardinality(Notes(log, "completed")) <= 1
        /\ \A i \in Notes(log, "completed"), j \in Notes(log, "streaming") : j < i
        /\ Notes(log, "completed") # {} <=> ReplyBecameRecord(log)
        /\ \A i \in Notes(log, "completed") :
               /\ log[i].rec = result.v
               /\ HasKey(result.v, kRaw)
               /\ log[i].text = result.v.o[kRaw]
        /\ StageFailed(log) => Notes(log, "completed") = {}

=============================================================================
